---- MODULE Spec2Model ----
(***************************************************************************)
(* Scene serialization of crates/bevy_serialization/src/scene.rs:          *)
(* ComponentRegistry (register, get) and the Serialize implementations of  *)
(* SerializableScene, WorldEntity, EntityComponents and EntityComponent,   *)
(* over an archetype / chunkset / chunk store and a structured sink.       *)
(***************************************************************************)
EXTENDS Naturals, Sequences, FiniteSets

\* ------------------------------------------------------------------ bounds
\* World::insert calls in one behaviour.
MaxInserts == 3
\* World::delete calls in one behaviour.
MaxDeletes == 1
\* Entity slots of one chunk.
ChunkCapacity == 2
\* Hand-offs a per-type serialize function makes at most.
MaxHandOffs == 2
\* Top-level serialize calls in one behaviour.
MaxPasses == 2

Types == {"Position", "Velocity"}
\* The tag values an entity can be inserted with: an archetype keeps one
\* chunkset for each tag value it has seen.
Tags == {"static", "dynamic"}
SinkErrors == {"io", "full"}
Ok == "Ok"
\* Option: None, Some(x) and the x of Some(x).
None == <<>>
Some(x) == <<x>>
Unwrap(o) == o[1]

VARIABLES
    archetypes,     \* World storage: sequence of archetypes
    allocated,      \* entity allocator: number of indices handed out
    live,           \* entity allocator: the live entities
    deletes,        \* World::delete calls made so far
    registrations,  \* ComponentRegistry.registrations, in the table's own order
    registration,   \* the registration a pending insert into the table holds, or None
    faults,         \* the errors the sink of this program can answer with
    pc,             \* position of the serialize call
    pos,            \* SerializableScene::serialize: number of the entity being emitted
    comp,           \* EntityComponents::serialize: number of the component being emitted
    calls,          \* EntityComponent::serialize: hand-offs the per-type function has made
    cell,           \* EntityComponent::serialize: the RefCell holding the sink
    result,         \* EntityComponent::serialize: the local result
    log,            \* the calls the sink has received, each with the sink's answer
    outcome,        \* what the top-level serialize call returned, or "panic"
    passes,         \* top-level serialize calls started
    prev            \* registry, log and outcome of the previous pass

world == <<archetypes, allocated, live, deletes>>
registry == <<registrations, registration>>
pass == <<pc, pos, comp, calls, cell, result, log, outcome, passes, prev>>
vars == <<world, registry, faults, pass>>

\* ------------------------------------------------------------ sequences
RECURSIVE Flatten(_)
Flatten(ss) == IF ss = <<>> THEN <<>> ELSE Head(ss) \o Flatten(Tail(ss))

Range(s) == {s[i] : i \in 1..Len(s)}

NoDuplicates(s) == \A i, j \in 1..Len(s) : s[i] = s[j] => i = j

\* The component lists an entity can be inserted with: every non-empty
\* ordering of distinct component types.
Layouts == {s \in UNION {[1..n -> Types] : n \in 1..Cardinality(Types)} : NoDuplicates(s)}

\* --------------------------------------------------------------- storage
\* The value of the component of type ty that entity e was inserted with.
Instance(e, ty) == [owner |-> e.index, ty |-> ty]

EmptyChunk(layout) == [entities |-> <<>>, columns |-> [ty \in Range(layout) |-> <<>>]]

\* Index of the archetype holding exactly the types of layout, 0 if none.
FindArchetype(layout) ==
    IF \E a \in 1..Len(archetypes) : Range(archetypes[a].components) = Range(layout)
    THEN CHOOSE a \in 1..Len(archetypes) : Range(archetypes[a].components) = Range(layout)
    ELSE 0

\* First chunk with a free slot, 0 if every chunk is full.
FindFreeChunk(chunks) ==
    IF \E h \in 1..Len(chunks) : Len(chunks[h].entities) < ChunkCapacity
    THEN CHOOSE h \in 1..Len(chunks) :
            /\ Len(chunks[h].entities) < ChunkCapacity
            /\ \A g \in 1..(h - 1) : Len(chunks[g].entities) >= ChunkCapacity
    ELSE 0

PushEntity(chunk, e) ==
    [entities |-> Append(chunk.entities, e),
     columns |-> [ty \in DOMAIN chunk.columns |-> Append(chunk.columns[ty], Instance(e, ty))]]

\* swap_remove of slot i: the last slot moves into slot i.
SwapRemove(s, i) ==
    LET n == Len(s)
    IN  [j \in 1..(n - 1) |-> IF j = i THEN s[n] ELSE s[j]]

RemoveSlot(chunk, i) ==
    [entities |-> SwapRemove(chunk.entities, i),
     columns |-> [ty \in DOMAIN chunk.columns |-> SwapRemove(chunk.columns[ty], i)]]

\* The entity the allocator hands out next: the next index, in its first
\* version.
NextEntity == [index |-> allocated, version |-> 1]

StoreInChunks(chunks, layout, e) ==
    LET h == FindFreeChunk(chunks)
    IN  IF h = 0
        THEN Append(chunks, PushEntity(EmptyChunk(layout), e))
        ELSE [chunks EXCEPT ![h] = PushEntity(chunks[h], e)]

\* c names the chunkset of the entity's tag value: an existing one, or the
\* next one for a tag value the archetype has not seen.
StoreInArchetype(arch, c, e) ==
    IF c > Len(arch.chunksets)
        THEN [arch EXCEPT !.chunksets =
                Append(@, [chunks |-> StoreInChunks(<<>>, arch.components, e)])]
        ELSE [arch EXCEPT !.chunksets[c].chunks = StoreInChunks(@, arch.components, e)]

ChunksetsOf(layout) ==
    IF FindArchetype(layout) = 0 THEN 0 ELSE Len(archetypes[FindArchetype(layout)].chunksets)

\* World::insert of one entity with the given component list into chunkset c
\* of the archetype of that list.
Insert(c, layout) ==
    /\ pc = "idle" /\ passes = 0
    /\ Cardinality(live) + deletes < MaxInserts
    /\ c <= ChunksetsOf(layout) + 1
    /\ LET e == NextEntity
           a == FindArchetype(layout)
       IN  /\ archetypes' =
                IF a = 0
                THEN Append(archetypes,
                            StoreInArchetype([components |-> layout, chunksets |-> <<>>], c, e))
                ELSE [archetypes EXCEPT ![a] = StoreInArchetype(@, c, e)]
           /\ live' = live \cup {e}
    /\ allocated' = allocated + 1
    /\ UNCHANGED <<deletes, registry, faults, pass>>

\* World::delete of the entity in slot i of chunk h of chunkset c of archetype a.
Delete(a, c, h, i) ==
    /\ pc = "idle" /\ passes = 0
    /\ deletes < MaxDeletes
    /\ LET e == archetypes[a].chunksets[c].chunks[h].entities[i]
       IN  /\ archetypes' = [archetypes EXCEPT ![a].chunksets[c].chunks[h] = RemoveSlot(@, i)]
           /\ live' = live \ {e}
    /\ deletes' = deletes + 1
    /\ UNCHANGED <<allocated, registry, faults, pass>>

\* -------------------------------------------------------------- registry
\* ComponentRegistration::of::<T>(): the registration of type ty, whose
\* per-type function hands its one instance to the sink once.
RegistrationOf(ty) == [ty |-> ty, handoffs |-> 1]

\* The registrations a caller can build: any number of hand-offs.
Registrations == [ty : Types, handoffs : 0..MaxHandOffs]

KeysOf(map) == {map[i].key : i \in 1..Len(map)}

\* Faulty variant of MapInsert: the entry is added beside the one the table holds.
MapInsertBeside(map, key, value) == Append(map, [key |-> key, value |-> value])

\* HashMap::insert: the value of a key the table holds is replaced in place.
MapInsert(map, key, value) ==
    IF key \in KeysOf(map)
    THEN [i \in 1..Len(map) |-> IF map[i].key = key THEN [key |-> key, value |-> value] ELSE map[i]]
    ELSE Append(map, [key |-> key, value |-> value])

\* Faulty variant of MapGet: the entry the table's order puts last is returned.
MapGetLast(map, key) == IF map = <<>> THEN None ELSE Some(map[Len(map)].value)

\* HashMap::get: the value of the first entry of the key, None if there is none.
MapGet(map, key) ==
    LET hits == {i \in 1..Len(map) : map[i].key = key}
    IN  IF hits = {} THEN None ELSE Some(map[CHOOSE i \in hits : \A j \in hits : i <= j].value)

\* Faulty variant of Get: a type without registration gets the one of() would build.
GetOrBuild(type_id) ==
    IF MapGet(registrations, type_id) = None
    THEN Some(RegistrationOf(type_id))
    ELSE MapGet(registrations, type_id)

\* ComponentRegistry::get
Get(type_id) == MapGet(registrations, type_id)

\* Registration is made at startup, before the world is populated and before
\* the first serialize call.
AtStartup == pc = "idle" /\ passes = 0 /\ allocated = 0

\* ComponentRegistry::register::<T>(), first statement: the registration is built.
RegisterOf(ty) ==
    /\ AtStartup
    /\ registration = None
    /\ registration' = Some(RegistrationOf(ty))
    /\ UNCHANGED <<world, registrations, faults, pass>>

\* A caller builds a registration of its own for the public table.
BuildRegistration(r) ==
    /\ AtStartup
    /\ registration = None
    /\ r # RegistrationOf(r.ty)
    /\ registration' = Some(r)
    /\ UNCHANGED <<world, registrations, faults, pass>>

\* ComponentRegistry::register::<T>(), second statement: the registration is
\* inserted under its own type id.
RegistrationsInsert ==
    /\ registration # None
    /\ registrations' = MapInsert(registrations, Unwrap(registration).ty, Unwrap(registration))
    /\ registration' = None
    /\ UNCHANGED <<world, faults, pass>>

\* ComponentRegistry::default(): a new, empty registry.
NewRegistry ==
    /\ AtStartup
    /\ registration = None
    /\ registrations # <<>>
    /\ registrations' = <<>>
    /\ UNCHANGED <<world, registration, faults, pass>>

\* ------------------------------------------------------------- traversal
\* World::iter_entities().count()
CountEntities == Cardinality(live)

\* Chunkset::occupied(): the chunks up to the last one that holds an entity.
Occupied(chunks) ==
    LET used == {h \in 1..Len(chunks) : chunks[h].entities # <<>>}
    IN  IF used = {} THEN <<>>
        ELSE SubSeq(chunks, 1, CHOOSE h \in used : \A g \in used : g <= h)

\* ComponentStorage::components(type): the column of the type, None if the
\* chunk has none.
Components(component_storage, ty) ==
    IF ty \in DOMAIN component_storage.columns
    THEN Some(component_storage.columns[ty])
    ELSE None

\* Faulty variant of ChunkEntities: the first slot of every chunk is skipped.
ChunkEntitiesSkipFirst(archetype, component_storage) ==
    [i \in 1..(Len(component_storage.entities) - 1) |->
        [index |-> i,
         archetype_components |-> archetype.components,
         component_storage |-> component_storage,
         entity |-> component_storage.entities[i + 1]]]

\* The WorldEntity values of one chunk: entities().iter().enumerate().
ChunkEntities(archetype, component_storage) ==
    [i \in 1..Len(component_storage.entities) |->
        [index |-> i - 1,
         archetype_components |-> archetype.components,
         component_storage |-> component_storage,
         entity |-> component_storage.entities[i]]]

\* Faulty variant of ChunksetEntities: the occupied chunks are walked last to first.
ChunksetEntitiesReversed(archetype, chunkset) ==
    LET chunks == Occupied(chunkset.chunks)
    IN  Flatten([h \in 1..Len(chunks) |-> ChunkEntities(archetype, chunks[Len(chunks) + 1 - h])])

ChunksetEntities(archetype, chunkset) ==
    LET chunks == Occupied(chunkset.chunks)
    IN  Flatten([h \in 1..Len(chunks) |-> ChunkEntities(archetype, chunks[h])])

ArchetypeEntities(archetype) ==
    Flatten([c \in 1..Len(archetype.chunksets) |-> ChunksetEntities(archetype, archetype.chunksets[c])])

\* The WorldEntity values the four nested loops of SerializableScene::serialize
\* hand to serialize_element, in loop order.
WorldEntities == Flatten([a \in 1..Len(archetypes) |-> ArchetypeEntities(archetypes[a])])

\* Entity::index()
EntityIndex(entity) == entity.index

\* Faulty variant of EntityId: the slot position is written in place of the index.
EntityIdIsSlot(we) == we.index

\* The value WorldEntity::serialize writes for the field "id".
EntityId(we) == EntityIndex(we.entity)

\* Faulty variant of EntityComponent: the archetype's types are taken in sorted order.
SortedTypes(types) ==
    IF Len(types) = 2 /\ types[1] = "Velocity" THEN <<types[2], types[1]>> ELSE types

EntityComponentSorted(we, k) ==
    LET ty == SortedTypes(we.archetype_components)[k]
    IN  [index |-> we.index,
         ty |-> ty,
         component_resource_set |-> Components(we.component_storage, ty),
         component_registration |-> Get(ty)]

\* Faulty variant of EntityComponent: the first slot of the column is read.
EntityComponentFirstSlot(we, k) ==
    LET ty == we.archetype_components[k]
    IN  [index |-> 0,
         ty |-> ty,
         component_resource_set |-> Components(we.component_storage, ty),
         component_registration |-> Get(ty)]

\* The EntityComponent EntityComponents::serialize builds for the k-th type of
\* the archetype's list; a field is None where the code's unwrap() panics.
EntityComponent(we, k) ==
    LET ty == we.archetype_components[k]
    IN  [index |-> we.index,
         ty |-> ty,
         component_resource_set |-> Components(we.component_storage, ty),
         component_registration |-> Get(ty)]

\* What the per-type function hands to the sink: the instance at index of the
\* column, as the type the registration was made for.
SerializedInstance(ec, r) ==
    [call |-> "component",
     ty |-> Unwrap(ec.component_registration).ty,
     value |-> Unwrap(ec.component_resource_set)[ec.index + 1],
     res |-> r]

\* ------------------------------------------------------------------ sink
SinkResults == {Ok} \cup faults

\* Faulty variant of Continues: the answer of the sink is not looked at.
ContinuesAlways(r) == TRUE

\* The `?` operator on the answer of a sink call: TRUE when the caller goes on.
Continues(r) == r = Ok

\* What a serialize call returns for the answer r of its last sink call.
Returned(r) == IF r = Ok THEN <<"Ok">> ELSE <<"Err", r>>

\* One call of the sink with its answer res; the caller goes on at next, or
\* returns the error through every enclosing serialize call.
Write(call, next) ==
    /\ log' = Append(log, call)
    /\ IF Continues(call.res)
       THEN pc' = next /\ UNCHANGED outcome
       ELSE pc' = "returned" /\ outcome' = Returned(call.res)

Panic ==
    /\ pc' = "panicked"
    /\ outcome' = <<"panic">>

Current == WorldEntities[pos]
CurrentComponent == EntityComponent(Current, comp)

\* ------------------------------------------------------------- serialize
\* SerializableScene::serialize, opening: serialize_seq(Some(count)).
SerializeScene ==
    /\ pc = "idle"
    /\ registration = None
    /\ passes < MaxPasses
    /\ passes' = passes + 1
    /\ pos' = 1
    /\ \E r \in SinkResults :
        Write([call |-> "serialize_seq", len |-> CountEntities, res |-> r], "entities")
    /\ UNCHANGED <<world, registry, faults, comp, calls, cell, result, prev>>

\* The loops reach the next entity: serialize_element(&WorldEntity), whose
\* serialize opens the record with serialize_struct("Entity", 2).
SerializeEntity ==
    /\ pc = "entities"
    /\ pos <= Len(WorldEntities)
    /\ \E r \in SinkResults :
        Write([call |-> "serialize_struct", name |-> "Entity", len |-> 2, res |-> r], "id")
    /\ UNCHANGED <<world, registry, faults, pos, comp, calls, cell, result, passes, prev>>

\* WorldEntity::serialize: serialize_field("id", &self.entity.index()).
SerializeId ==
    /\ pc = "id"
    /\ \E r \in SinkResults :
        Write([call |-> "serialize_field", key |-> "id", value |-> EntityId(Current),
               res |-> r], "components")
    /\ UNCHANGED <<world, registry, faults, pos, comp, calls, cell, result, passes, prev>>

\* WorldEntity::serialize: serialize_field("components", &EntityComponents),
\* whose serialize opens serialize_seq(Some(archetype_components.len())).
SerializeComponents ==
    /\ pc = "components"
    /\ comp' = 1
    /\ \E r \in SinkResults :
        Write([call |-> "serialize_field", key |-> "components",
               len |-> Len(Current.archetype_components), res |-> r], "component")
    /\ UNCHANGED <<world, registry, faults, pos, calls, cell, result, passes, prev>>

\* EntityComponents::serialize, loop body: the two lookups are unwrapped, and
\* serialize_element(&EntityComponent) enters EntityComponent::serialize, which
\* sets result to None, puts the sink in the cell and calls the per-type function.
SerializeComponent ==
    /\ pc = "component"
    /\ comp <= Len(Current.archetype_components)
    /\ IF \/ CurrentComponent.component_resource_set = None
          \/ CurrentComponent.component_registration = None
       THEN Panic /\ UNCHANGED <<calls, cell, result>>
       ELSE /\ pc' = "fn"
            /\ calls' = 0
            /\ cell' = "Some"
            /\ result' = None
            /\ UNCHANGED outcome
    /\ UNCHANGED <<world, registry, faults, pos, comp, log, passes, prev>>

\* Faulty variant of Take: the sink is handed out again after it was taken.
TakeAgain(c) == TRUE

\* RefCell::borrow_mut().take(): TRUE when the cell still holds the sink.
Take(c) == c = "Some"

\* The closure of EntityComponent::serialize, called by the per-type function:
\* the sink is taken out of the cell (unwrap panics when it is gone) and the
\* instance is written through it; the answer becomes the result.
HandOff ==
    /\ pc = "fn"
    /\ calls < Unwrap(CurrentComponent.component_registration).handoffs
    /\ IF Take(cell)
       THEN /\ \E r \in SinkResults :
                /\ log' = Append(log, SerializedInstance(CurrentComponent, r))
                /\ result' = Some(r)
            /\ cell' = "None"
            /\ calls' = calls + 1
            /\ UNCHANGED <<pc, outcome>>
       ELSE Panic /\ UNCHANGED <<log, result, cell, calls>>
    /\ UNCHANGED <<world, registry, faults, pos, comp, passes, prev>>

\* The per-type function returns: EntityComponent::serialize returns
\* result.unwrap(), on which serialize_element(..)? goes on or returns.
FnReturn ==
    /\ pc = "fn"
    /\ calls = Unwrap(CurrentComponent.component_registration).handoffs
    /\ IF result = None
       THEN Panic /\ UNCHANGED comp
       ELSE IF Continues(Unwrap(result))
            THEN pc' = "component" /\ comp' = comp + 1 /\ UNCHANGED outcome
            ELSE pc' = "returned" /\ outcome' = Returned(Unwrap(result)) /\ UNCHANGED comp
    /\ UNCHANGED <<world, registry, faults, pos, calls, cell, result, log, passes, prev>>

\* EntityComponents::serialize, after the loop: seq.end().
ComponentsEnd ==
    /\ pc = "component"
    /\ comp > Len(Current.archetype_components)
    /\ \E r \in SinkResults : Write([call |-> "seq_end", res |-> r], "end")
    /\ UNCHANGED <<world, registry, faults, pos, comp, calls, cell, result, passes, prev>>

\* WorldEntity::serialize: state.end(); the outer loops go to the next entity.
EntityEnd ==
    /\ pc = "end"
    /\ \E r \in SinkResults : Write([call |-> "struct_end", res |-> r], "entities")
    /\ pos' = pos + 1
    /\ UNCHANGED <<world, registry, faults, comp, calls, cell, result, passes, prev>>

\* SerializableScene::serialize, after the loops: seq.end() is the result.
SceneEnd ==
    /\ pc = "entities"
    /\ pos > Len(WorldEntities)
    /\ \E r \in SinkResults :
        /\ log' = Append(log, [call |-> "seq_end", res |-> r])
        /\ outcome' = Returned(r)
    /\ pc' = "returned"
    /\ UNCHANGED <<world, registry, faults, pos, comp, calls, cell, result, passes, prev>>

\* The caller keeps what a pass that returned Ok gave and is ready to
\* serialize again.
Finish ==
    /\ pc = "returned"
    /\ outcome = <<"Ok">>
    /\ passes < MaxPasses
    /\ prev' = [registrations |-> registrations, log |-> log, outcome |-> outcome]
    /\ pc' = "idle"
    /\ log' = <<>>
    /\ outcome' = None
    /\ UNCHANGED <<world, registry, faults, pos, comp, calls, cell, result, passes>>

\* Before the next pass the caller builds another registry with the same
\* registrations, registered in another order.
RegisterInOtherOrder ==
    /\ pc = "idle" /\ passes > 0
    /\ registration = None
    /\ \E p \in [1..Len(registrations) -> 1..Len(registrations)] :
        /\ \A i, j \in 1..Len(registrations) : p[i] = p[j] => i = j
        /\ registrations' = [i \in 1..Len(registrations) |-> registrations[p[i]]]
        /\ registrations' # registrations
    /\ UNCHANGED <<world, registration, faults, pass>>

\* Scene::default() and ComponentRegistry::default(), no serialize call made.
Start ==
    /\ archetypes = <<>>
    /\ allocated = 0
    /\ live = {}
    /\ deletes = 0
    /\ registrations = <<>>
    /\ registration = None
    /\ pc = "idle"
    /\ pos = 1
    /\ comp = 1
    /\ calls = 0
    /\ cell = "None"
    /\ result = None
    /\ log = <<>>
    /\ outcome = None
    /\ passes = 0
    /\ prev = [registrations |-> <<>>, log |-> <<>>, outcome |-> None]

\* The program writes to a sink that accepts every call.
Init == Start /\ faults = {}

\* The program writes to a sink that can answer any call with an error.
InitFailingSink == Start /\ faults = SinkErrors

Serialize ==
    \/ SerializeScene
    \/ SerializeEntity
    \/ SerializeId
    \/ SerializeComponents
    \/ SerializeComponent
    \/ HandOff
    \/ FnReturn
    \/ ComponentsEnd
    \/ EntityEnd
    \/ SceneEnd

InsertEntity == \E c \in 1..Cardinality(Tags), layout \in Layouts : Insert(c, layout)

DeleteEntity ==
    \E a \in 1..Len(archetypes) :
      \E c \in 1..Len(archetypes[a].chunksets) :
        \E h \in 1..Len(archetypes[a].chunksets[c].chunks) :
          \E i \in 1..Len(archetypes[a].chunksets[c].chunks[h].entities) : Delete(a, c, h, i)

Register == (\E ty \in Types : RegisterOf(ty)) \/ RegistrationsInsert

\* The program that registers its types with register::<T>() only, builds and
\* edits its world, and serializes it to a sink that accepts every call.
Next ==
    \/ Register
    \/ NewRegistry
    \/ InsertEntity
    \/ DeleteEntity
    \/ Serialize

Spec == Init /\ [][Next]_vars

\* The program that fills its world, serializes it, and serializes it again,
\* with the same registry or with one built in another order.
NextAgain ==
    \/ Register
    \/ NewRegistry
    \/ InsertEntity
    \/ Serialize
    \/ Finish
    \/ RegisterInOtherOrder

SpecAgain == Init /\ [][NextAgain]_vars

\* The program that registers its types with register::<T>() only, fills its
\* world and serializes it to a sink that can fail.
NextFailingSink ==
    \/ Register
    \/ NewRegistry
    \/ InsertEntity
    \/ Serialize

SpecFailingSink == InitFailingSink /\ [][NextFailingSink]_vars

\* The program that also puts registrations of its own into the public table.
NextCallerBuilt ==
    \/ Register
    \/ \E r \in Registrations : BuildRegistration(r)
    \/ NewRegistry
    \/ InsertEntity
    \/ Serialize

SpecCallerBuilt == InitFailingSink /\ [][NextCallerBuilt]_vars

\* ---------------------------------------------------------------- claims
\* The places of the storage that hold an entity: <<archetype, chunkset,
\* chunk, slot>>, all numbered from 1.
Stored ==
    UNION {UNION {UNION {{<<a, c, h, i>> :
                            i \in 1..Len(archetypes[a].chunksets[c].chunks[h].entities)} :
                         h \in 1..Len(archetypes[a].chunksets[c].chunks)} :
                  c \in 1..Len(archetypes[a].chunksets)} :
           a \in 1..Len(archetypes)}

ChunkAt(s) == archetypes[s[1]].chunksets[s[2]].chunks[s[3]]
EntityAt(s) == ChunkAt(s).entities[s[4]]
PlaceOfId(id) == CHOOSE s \in Stored : EntityAt(s).index = id

\* Place s comes before place t in archetype, chunkset, chunk, slot order.
Before(s, t) ==
    \E n \in 1..4 : s[n] < t[n] /\ \A m \in 1..(n - 1) : s[m] = t[m]

IsCall(e, name) == e.call = name
IsIdField(e) == IsCall(e, "serialize_field") /\ e.key = "id"

\* The values the sink was given for the field "id", in the order given.
IdsOf(l) ==
    LET fields == SelectSeq(l, IsIdField)
    IN  [n \in 1..Len(fields) |-> fields[n].value]

\* An emitted record: the sink calls from a serialize_struct at i to the
\* struct_end that closes it, all accepted.
RecordEnd(l, i) ==
    LET ends == {j \in (i + 1)..Len(l) : IsCall(l[j], "struct_end")}
    IN  IF ends = {} THEN 0 ELSE CHOOSE j \in ends : \A k \in ends : j <= k

EmittedRecords(l) ==
    {i \in 1..Len(l) : /\ IsCall(l[i], "serialize_struct")
                       /\ RecordEnd(l, i) # 0
                       /\ l[RecordEnd(l, i)].res = Ok}

RecordId(l, i) == l[i + 1].value
RecordLen(l, i) == l[i + 2].len
RecordComponents(l, i) == SubSeq(l, i + 3, RecordEnd(l, i) - 2)

ReturnedOk == pc = "returned" /\ outcome = <<"Ok">>

\* C1: a completed pass over a world of N live entities opened the outer
\* sequence with length N and wrote N records, one for each live entity and
\* none twice.
C1_Completeness ==
    ReturnedOk =>
        LET ids == IdsOf(log)
        IN  /\ log[1] = [call |-> "serialize_seq", len |-> Cardinality(live), res |-> Ok]
            /\ Len(ids) = Cardinality(live)
            /\ Cardinality(EmittedRecords(log)) = Cardinality(live)
            /\ \A e \in live :
                Cardinality({n \in 1..Len(ids) : ids[n] = e.index}) = 1

\* A completed pass over two live entities in a world where an entity was
\* deleted and a chunk was left empty.
C1_Witness ==
    /\ ReturnedOk
    /\ Cardinality(live) = 2
    /\ deletes = 1
    /\ \E a \in 1..Len(archetypes) : \E c \in 1..Len(archetypes[a].chunksets) :
        \E h \in 1..Len(archetypes[a].chunksets[c].chunks) :
            archetypes[a].chunksets[c].chunks[h].entities = <<>>

\* C3: every emitted record gives its components list the length of the type
\* list of the archetype holding the entity, and its k-th element was produced
\* by the registration of the k-th type of that list, as declared.
C3_PerEntityShape ==
    \A i \in EmittedRecords(log) :
        LET declared == archetypes[PlaceOfId(RecordId(log, i))[1]].components
            elements == RecordComponents(log, i)
        IN  /\ RecordLen(log, i) = Len(declared)
            /\ Len(elements) = Len(declared)
            /\ \A k \in 1..Len(declared) :
                /\ IsCall(elements[k], "component")
                /\ elements[k].ty = declared[k]

\* A record was emitted for an entity of an archetype declared as
\* <<Velocity, Position>>, which is not in sorted order.
C3_Witness ==
    \E i \in EmittedRecords(log) :
        /\ archetypes[PlaceOfId(RecordId(log, i))[1]].components = <<"Velocity", "Position">>
        /\ Len(RecordComponents(log, i)) = 2

\* C4: every id the sink is given is the index of the entity of the slot being
\* emitted, and no two records of a pass carry the same id.
C4_IdentityPreservation ==
    LET ids == IdsOf(log)
        slots == WorldEntities
    IN  \A n \in 1..Len(ids) :
            /\ n <= Len(slots)
            /\ ids[n] = slots[n].entity.index
            /\ \A m \in 1..Len(ids) : ids[m] = ids[n] => m = n

\* Two entities at the same slot position of different chunks were both
\* emitted, with ids that are not their slot position.
C4_Witness ==
    /\ pc = "returned"
    /\ \E s, t \in Stored :
        /\ s # t /\ s[4] = t[4]
        /\ EntityAt(s).index # s[4] - 1
        /\ EntityAt(t).index # t[4] - 1
        /\ \E m, n \in 1..Len(IdsOf(log)) :
            IdsOf(log)[m] = EntityAt(s).index /\ IdsOf(log)[n] = EntityAt(t).index

\* C7: ids are given in storage order: of two ids of a pass, the earlier one
\* is stored at the earlier archetype, else chunkset, else chunk, else slot.
C7_TraversalOrder ==
    LET ids == IdsOf(log)
        places == [n \in 1..Len(ids) |-> PlaceOfId(ids[n])]
    IN  \A m, n \in 1..Len(ids) : m < n => Before(places[m], places[n])

\* A completed pass over two archetypes in which an entity created later
\* (higher index) was emitted before one created earlier.
C7_Witness ==
    /\ ReturnedOk
    /\ \E m, n \in 1..Len(IdsOf(log)) :
        /\ m < n
        /\ IdsOf(log)[m] > IdsOf(log)[n]
        /\ PlaceOfId(IdsOf(log)[m])[1] < PlaceOfId(IdsOf(log)[n])[1]

\* C9: every component value written in a record is the one held, for the
\* type of that element, by the column of the chunk holding the record's
\* entity, at that entity's slot.
C9_OwnComponents ==
    \A i \in 1..Len(log) :
        (IsCall(log[i], "serialize_struct") /\ i + 1 <= Len(log)) =>
            LET place == PlaceOfId(RecordId(log, i))
                declared == archetypes[place[1]].components
            IN  \A k \in 1..Len(declared) :
                    (i + 2 + k <= Len(log)) =>
                        /\ IsCall(log[i + 2 + k], "component")
                        /\ log[i + 2 + k].value = ChunkAt(place).columns[declared[k]][place[4]]
                        /\ log[i + 2 + k].value.owner = EntityAt(place).index

\* Both components were written for an entity in the second slot of the
\* world's first chunk, whose first slot holds, after a deletion, an entity
\* other than the first one created.
C9_Witness ==
    /\ deletes = 1
    /\ \E i \in EmittedRecords(log) :
        LET place == PlaceOfId(RecordId(log, i))
        IN  /\ place = <<1, 1, 1, 2>>
            /\ ChunkAt(place).entities[1].index > 0
            /\ Len(RecordComponents(log, i)) = 2

AllOk(l) == \A i \in 1..Len(l) : l[i].res = Ok

\* C5: a sink call that was answered with an error is the last call the sink
\* receives, and the serialize call returns that very error; an error is
\* returned for no other reason.
C5_SinkErrorPropagates ==
    /\ \A i \in 1..Len(log) :
        log[i].res # Ok =>
            /\ i = Len(log)
            /\ \/ pc = "returned" /\ outcome = <<"Err", log[i].res>>
               \/ pc = "fn" /\ result = Some(log[i].res)
    /\ (pc = "returned" /\ outcome # <<"Ok">>) =>
            /\ log # <<>>
            /\ log[Len(log)].res \in SinkErrors
            /\ outcome = <<"Err", log[Len(log)].res>>

\* The serialize call returned the error "full" that the sink gave for a
\* component of the second entity.
C5_Witness ==
    /\ pc = "returned"
    /\ outcome = <<"Err", "full">>
    /\ pos = 2
    /\ IsCall(log[Len(log)], "component")
    /\ log[Len(log)].res = "full"

Unregistered(ty) == MapGet(registrations, ty) = None

\* C2 as claimed: when the pass aborts, nothing has been written to the sink.
C2_NoOutputOnAbort == pc = "panicked" => log = <<>>

\* C2 as amended: the pass aborts at the component whose type has no
\* registration and returns nothing; by then the sink has accepted the outer
\* sequence opening, the records before, and the opening, the id, the
\* components opening and the earlier components of the entity's record; and
\* no pass over a stored entity with an unregistered type returns Ok.
C2_AbortAfterPartialOutput ==
    /\ pc = "panicked" =>
        LET open == Len(log) - comp - 1
        IN  /\ outcome = <<"panic">>
            /\ Unregistered(Current.archetype_components[comp])
            /\ \A k \in 1..(comp - 1) : ~Unregistered(Current.archetype_components[k])
            /\ AllOk(log)
            /\ open >= 2
            /\ log[1] = [call |-> "serialize_seq", len |-> Cardinality(live), res |-> Ok]
            /\ IsCall(log[open], "serialize_struct")
            /\ RecordId(log, open) = Current.entity.index
            /\ Cardinality(EmittedRecords(log)) = pos - 1
    /\ ReturnedOk =>
        \A s \in Stored : \A ty \in Range(archetypes[s[1]].components) : ~Unregistered(ty)

\* The pass aborted at the second component of the second entity.
C2_Witness ==
    /\ pc = "panicked"
    /\ pos = 2
    /\ comp = 2
    /\ Len(log) = 11

\* The two sink calls are the same call, whatever the sink answered.
SameCall(e, f) == [e EXCEPT !.res = Ok] = [f EXCEPT !.res = Ok]

\* C8: a second pass over the same world, with a registry holding the same
\* registrations in whatever order, gives the sink the calls of the first
\* pass in the same order, as far as the sink lets it go, and all of them
\* when it returns Ok.
C8_Determinism ==
    (/\ passes >= 2
     /\ Range(registrations) = Range(prev.registrations)) =>
        /\ pc # "panicked"
        /\ \A i \in 1..Len(log) :
            /\ i <= Len(prev.log)
            /\ SameCall(log[i], prev.log[i])
        /\ ReturnedOk => log = prev.log

\* A second pass returned Ok over two archetypes with the registrations in
\* the other order.
C8_Witness ==
    /\ passes = 2
    /\ ReturnedOk
    /\ registrations # prev.registrations
    /\ Len(archetypes) = 2
    /\ Cardinality(live) >= 2

UniqueKeys(map) == \A i, j \in 1..Len(map) : map[i].key = map[j].key => i = j

\* C6: the table never holds two registrations of a type id; an insert of a
\* registration, for a type registered before or not, leaves that
\* registration as the only one get returns for its type and changes the
\* answer of get for no other type; and get answers None for a type until a
\* registration of it is inserted.
C6_RegistryOverwrite ==
    /\ [](UniqueKeys(registrations))
    /\ [][(registration # None /\ registration' = None) =>
            /\ MapGet(registrations', Unwrap(registration).ty) = registration
            /\ Cardinality({i \in 1..Len(registrations') :
                              registrations'[i].key = Unwrap(registration).ty}) = 1
            /\ \A ty \in Types \ {Unwrap(registration).ty} :
                MapGet(registrations', ty) = MapGet(registrations, ty)]_vars
    /\ [][\A ty \in Types :
            (MapGet(registrations, ty) = None /\ MapGet(registrations', ty) # None) =>
                (registration # None /\ Unwrap(registration).ty = ty)]_vars

\* register::<Position>() has built its registration while the table holds
\* another registration of Position and one of Velocity.
C6_Witness ==
    /\ registration = Some(RegistrationOf("Position"))
    /\ MapGet(registrations, "Position") # None
    /\ MapGet(registrations, "Position") # registration
    /\ MapGet(registrations, "Velocity") # None

HandOffsOfCurrent == Unwrap(CurrentComponent.component_registration).handoffs

\* C10: while the per-type function runs, the cell holds the sink until the
\* first hand-off and never after, the sink gets at most one call for the
\* element, whose answer is the element's result; the element is left with a
\* result only by a function that handed off once, and with a panic by one
\* that handed off never or twice, the second hand-off writing nothing.
C10_SinkUsedOnce ==
    /\ [](pc = "fn" =>
            /\ calls <= 1
            /\ calls = 0 => (cell = "Some" /\ result = None)
            /\ calls = 1 => /\ cell = "None"
                            /\ IsCall(log[Len(log)], "component")
                            /\ result = Some(log[Len(log)].res))
    /\ [][(pc = "fn" /\ log' # log) => (calls = 0 /\ calls' = 1 /\ pc' = "fn")]_vars
    /\ [][(pc = "fn" /\ pc' # "fn") =>
            /\ log' = log
            /\ IF HandOffsOfCurrent = 1
               THEN /\ calls = 1
                    /\ IF Unwrap(result) = Ok
                       THEN pc' = "component" /\ comp' = comp + 1
                       ELSE pc' = "returned" /\ outcome' = <<"Err", Unwrap(result)>>
               ELSE pc' = "panicked"]_vars

\* The pass aborted at the second hand-off of a per-type function, after the
\* first one had written the component.
C10_Witness ==
    /\ pc = "panicked"
    /\ calls = 1
    /\ cell = "None"
    /\ result = Some(Ok)
    /\ CurrentComponent.component_registration # None
    /\ HandOffsOfCurrent = 2

====
